---- MODULE Spec2Model ----
(***************************************************************************)
(* PracType (main.py): the statistics store StatDict with its CharStat     *)
(* objects, and the typing sessions process_line / process_text.           *)
(*                                                                         *)
(* CharStat objects live in a heap and a StatDict maps a key (the code of  *)
(* a character) to the identity of a CharStat object, because merge_child  *)
(* stores the child's object itself (self._dict[key] = val).               *)
(* Characters are their integer codes (ord).  A Python dict keeps its      *)
(* insertion order; no operation modelled here depends on it, each key     *)
(* being handled independently of the others, so a dict is a function.     *)
(***************************************************************************)
EXTENDS Integers, Sequences, FiniteSets, TLC

VARIABLES heap, dicts, text, pc, line_idx, line_src, line_in, char_idx, ret,
          line_out, keys_nb, last_key, returned, ops_nb, last_op,
          erased, render_nb, file, main_dict, io_log

vars == <<heap, dicts, text, pc, line_idx, line_src, line_in, char_idx, ret,
          line_out, keys_nb, last_key, returned, ops_nb, last_op,
          erased, render_nb, file, main_dict, io_log>>

sessionVars == <<text, pc, line_idx, line_src, line_in, char_idx, ret,
                 line_out, keys_nb, last_key, returned, erased, render_nb>>

\* stats.csv, the StatDict of main, and the calls main made on it
mainVars == <<file, main_dict, io_log>>

(* ---------------------------- bounds ----------------------------------- *)

\* longest text, in characters, line separators included
MaxTextLen == 4
\* most printable and backspace keys read during one process_text
MaxKeys == 3
\* most rows of stats.csv in the file specification
MaxRows == 2
\* most StatDict calls made in the file specification
MaxFileOps == 3
\* most StatDict calls made in the store specification
MaxOps == 5

(* --------------------------- constants --------------------------------- *)

SPACE == 32
ESCAPE == 27
RETURN == 10
BACKSPACE == 8
\* the line separator of text.split
NEWLINE == 10

\* the characters of the texts and of the printable keys: ' ', 'a', 'b'
CharSet == {SPACE, 97, 98}

\* dict.get(key) of a missing key
None == 0

\* stats.csv does not exist
NoFile == [exists |-> FALSE, rows |-> <<>>]

\* stats.csv with these rows after its header
FileOf(rows) == [exists |-> TRUE, rows |-> rows]

\* a field the row lacks (csv.DictReader gives None)
NoField == <<-1>>

\* the StatDict instances: stat_dict and stat_dict_line of process_text,
\* stat_dict of process_line
Stores == {"stat_dict", "stat_dict_line", "line_stat_dict"}

(* ----------------------------- StatDict -------------------------------- *)

\* CharStat.__init__
CharStat(char) == [char |-> char, src_nb |-> 0, err_nb |-> 0]

\* StatDict.__init__ : self._dict = {}
EmptyDict == [k \in CharSet |-> None]

\* the keys of a dict
Keys(d) == {k \in CharSet : d[k] # None}

\* what a store holds, by value: its key set and the counters of each key
View(h, d) == [k \in Keys(d) |-> [src_nb |-> h[d[k]].src_nb, err_nb |-> h[d[k]].err_nb]]

\* add_src that leaves the counter of an existing entry alone
AddSrc_NoIncrement(st, s, char) ==
    IF char = SPACE THEN st
    ELSE IF st.dicts[s][char] = None
         THEN [heap |-> Append(st.heap, [CharStat(char) EXCEPT !.src_nb = 1]),
               dicts |-> [st.dicts EXCEPT ![s][char] = Len(st.heap) + 1]]
         ELSE st

\* add_src without the test of the space character
AddSrc_CountsSpace(st, s, char) ==
    LET st1 == IF st.dicts[s][char] = None
               THEN [heap |-> Append(st.heap, CharStat(char)),
                     dicts |-> [st.dicts EXCEPT ![s][char] = Len(st.heap) + 1]]
               ELSE st
        o == st1.dicts[s][char]
    IN [st1 EXCEPT !.heap[o].src_nb = @ + 1]

\* StatDict.add_src on store s of state st = [heap, dicts]
AddSrc(st, s, char) ==
    IF char = SPACE THEN st
    ELSE LET char_stat == st.dicts[s][char]
             st1 == IF char_stat = None
                    THEN [heap |-> Append(st.heap, CharStat(char)),
                          dicts |-> [st.dicts EXCEPT ![s][char] = Len(st.heap) + 1]]
                    ELSE st
             o == st1.dicts[s][char]
         IN [st1 EXCEPT !.heap[o].src_nb = @ + 1]

\* StatDict.add_err
AddErr(st, s, char) ==
    IF char = SPACE THEN st
    ELSE LET char_stat == st.dicts[s][char]
         IN IF char_stat # None
            THEN [st EXCEPT !.heap[char_stat].err_nb = @ + 1]
            ELSE st

\* merge_child that replaces an existing entry by the child's
MergeEntry_Overwrite(st, s, key, val) == [st EXCEPT !.dicts[s][key] = val]

\* one iteration of the loop of merge_child: entry (key, val) of the child
MergeEntry(st, s, key, val) ==
    LET char_stat == st.dicts[s][key]
    IN IF char_stat # None
       THEN LET st1 == [st EXCEPT !.heap[char_stat].src_nb = @ + st.heap[val].src_nb]
            IN [st1 EXCEPT !.heap[char_stat].err_nb = @ + st1.heap[val].err_nb]
       ELSE [st EXCEPT !.dicts[s][key] = val]

Min(S) == CHOOSE x \in S : \A y \in S : x <= y

RECURSIVE MergeItems(_, _, _, _)
\* the loop of merge_child over the entries of the child still to visit
MergeItems(st, s, child, todo) ==
    IF todo = {} THEN st
    ELSE LET key == Min(todo)
         IN MergeItems(MergeEntry(st, s, key, st.dicts[child][key]), s, child, todo \ {key})

\* StatDict.merge_child
MergeChild(st, s, child) == MergeItems(st, s, child, Keys(st.dicts[child]))

St == [heap |-> heap, dicts |-> dicts]

(* --------------------------- print_line_in ----------------------------- *)

\* print_line_in with the colours exchanged
PrintLineIn_Inverted(lin, lsrc) ==
    [i \in 1..(IF Len(lin) < Len(lsrc) THEN Len(lin) ELSE Len(lsrc)) |->
        [char |-> lin[i], red |-> lin[i] = lsrc[i]]]

\* print_line_in: the characters printed, each plain or red
PrintLineIn(lin, lsrc) ==
    [i \in 1..(IF Len(lin) < Len(lsrc) THEN Len(lin) ELSE Len(lsrc)) |->
        [char |-> lin[i], red |-> lin[i] # lsrc[i]]]

(* ---------------------------- process_line ----------------------------- *)

\* line_src[char_idx] is defined: Python accepts -len <= char_idx < len
InRange(lsrc, idx) == -Len(lsrc) <= idx /\ idx < Len(lsrc)

\* line_src[char_idx], a negative index counting from the end
PyIndex(lsrc, idx) == IF idx >= 0 THEN lsrc[idx + 1] ELSE lsrc[Len(lsrc) + idx + 1]

\* line_in[:-1]
DropLast(lin) == IF Len(lin) = 0 THEN lin ELSE SubSeq(lin, 1, Len(lin) - 1)

\* the end-of-line test off by one
HasRoom_OffByOne(lin, lsrc) == Len(lin) <= Len(lsrc)

\* "Stop at end of line"
HasRoom(lin, lsrc) == Len(lin) < Len(lsrc)

\* statistics recorded against the typed character
Record_TypedChar(st, char_in, expected) ==
    LET st1 == AddSrc(st, "line_stat_dict", char_in)
    IN IF char_in # expected THEN AddErr(st1, "line_stat_dict", char_in) ELSE st1

\* the statistics recorded for a key typed where expected is the source character
Record(st, char_in, expected) ==
    LET st1 == AddSrc(st, "line_stat_dict", expected)
    IN IF char_in # expected THEN AddErr(st1, "line_stat_dict", expected) ELSE st1

RECURSIVE Split(_)
\* str.split('\n'): the lines of a text, at least one
Split(str) ==
    IF str = <<>> THEN << <<>> >>
    ELSE LET rest == Split(Tail(str))
         IN IF Head(str) = NEWLINE
            THEN << <<>> >> \o rest
            ELSE << <<Head(str)>> \o Head(rest) >> \o Tail(rest)

\* text.split('\n')
TextLines == Split(text)

\* process_line that keeps the statistics of the line before
StartLine_KeepsStats ==
    /\ pc = "text"
    /\ line_idx < Len(TextLines)
    /\ line_idx' = line_idx + 1
    /\ line_src' = TextLines[line_idx + 1]
    /\ ret' = "OK"
    /\ char_idx' = 0
    /\ line_in' = <<>>
    /\ line_out' = <<>>
    /\ last_key' = None
    /\ pc' = "line"
    /\ erased' = FALSE
    /\ UNCHANGED <<heap, dicts, text, keys_nb, returned, ops_nb, last_op,
                   render_nb, mainVars>>

\* process_line up to its first getch: a new line session
StartLine ==
    /\ pc = "text"
    /\ line_idx < Len(TextLines)
    /\ line_idx' = line_idx + 1
    /\ line_src' = TextLines[line_idx + 1]
    /\ ret' = "OK"
    /\ char_idx' = 0
    /\ line_in' = <<>>
    /\ dicts' = [dicts EXCEPT !["line_stat_dict"] = EmptyDict]
    /\ line_out' = <<>>
    /\ last_key' = None
    /\ pc' = "line"
    /\ erased' = FALSE
    /\ UNCHANGED <<heap, text, keys_nb, returned, ops_nb, last_op,
                   render_nb, mainVars>>

\* return (ret, stat_dict)
Returned(r) == Append(returned, [ret |-> r, line |-> line_src,
                                 stats |-> View(heap, dicts["line_stat_dict"])])

\* key 27
Escape ==
    /\ pc = "line"
    /\ ret' = "STOP"
    /\ last_key' = ESCAPE
    /\ returned' = Returned("STOP")
    /\ pc' = "returned"
    /\ UNCHANGED <<heap, dicts, text, line_idx, line_src, line_in, char_idx,
                   line_out, keys_nb, ops_nb, last_op,
                   erased, render_nb, mainVars>>

\* key 10
Return ==
    /\ pc = "line"
    /\ last_key' = RETURN
    /\ returned' = Returned(ret)
    /\ pc' = "returned"
    /\ UNCHANGED <<heap, dicts, text, line_idx, line_src, line_in, char_idx, ret,
                   line_out, keys_nb, ops_nb, last_op,
                   erased, render_nb, mainVars>>

\* a backspace that also forgets the statistics of the line
Backspace_ForgetsStats ==
    /\ pc = "line"
    /\ keys_nb < MaxKeys
    /\ keys_nb' = keys_nb + 1
    /\ last_key' = BACKSPACE
    /\ line_in' = DropLast(line_in)
    /\ char_idx' = char_idx - 1
    /\ dicts' = [dicts EXCEPT !["line_stat_dict"] = EmptyDict]
    /\ line_out' = PrintLineIn(line_in', line_src)
    /\ erased' = TRUE
    /\ render_nb' = render_nb + 1
    /\ UNCHANGED <<heap, text, pc, line_idx, line_src, ret, returned,
                   ops_nb, last_op,
                   mainVars>>

\* key 8
Backspace ==
    /\ pc = "line"
    /\ keys_nb < MaxKeys
    /\ keys_nb' = keys_nb + 1
    /\ last_key' = BACKSPACE
    /\ line_in' = DropLast(line_in)
    /\ char_idx' = char_idx - 1
    /\ line_out' = PrintLineIn(line_in', line_src)
    /\ erased' = TRUE
    /\ render_nb' = render_nb + 1
    /\ UNCHANGED <<heap, dicts, text, pc, line_idx, line_src, ret, returned,
                   ops_nb, last_op,
                   mainVars>>

\* any other key, with room left and line_src[char_idx] defined
Printable(char_in) ==
    /\ pc = "line"
    /\ keys_nb < MaxKeys
    /\ HasRoom(line_in, line_src)
    /\ InRange(line_src, char_idx)
    /\ keys_nb' = keys_nb + 1
    /\ last_key' = char_in
    /\ LET st2 == Record(St, char_in, PyIndex(line_src, char_idx))
       IN heap' = st2.heap /\ dicts' = st2.dicts
    /\ line_in' = Append(line_in, char_in)
    /\ char_idx' = char_idx + 1
    /\ line_out' = PrintLineIn(line_in', line_src)
    /\ render_nb' = render_nb + 1
    /\ UNCHANGED <<text, pc, line_idx, line_src, ret, returned, ops_nb, last_op,
                   erased, mainVars>>

\* any other key at the end of the line: ignored
PrintableIgnored(char_in) ==
    /\ pc = "line"
    /\ keys_nb < MaxKeys
    /\ ~HasRoom(line_in, line_src)
    /\ keys_nb' = keys_nb + 1
    /\ last_key' = char_in
    /\ line_out' = PrintLineIn(line_in, line_src)
    /\ render_nb' = render_nb + 1
    /\ UNCHANGED <<heap, dicts, text, pc, line_idx, line_src, line_in, char_idx,
                   ret, returned, ops_nb, last_op,
                   erased, mainVars>>

\* any other key, with room left and char_idx < -len(line_src): IndexError,
\* which nothing catches
PrintableIndexError(char_in) ==
    /\ pc = "line"
    /\ keys_nb < MaxKeys
    /\ HasRoom(line_in, line_src)
    /\ ~InRange(line_src, char_idx)
    /\ keys_nb' = keys_nb + 1
    /\ last_key' = char_in
    /\ pc' = "error"
    /\ UNCHANGED <<heap, dicts, text, line_idx, line_src, line_in, char_idx,
                   ret, line_out, returned, ops_nb, last_op,
                   erased, render_nb, mainVars>>

(* ---------------------------- process_text ----------------------------- *)

\* a loop that never breaks
Breaks_Never(r) == FALSE

\* the loop of process_text ends after a line that returned STOP
Breaks(r) == r = "STOP"

\* process_text after process_line returned: merge, then break or loop
MergeLine ==
    /\ pc = "returned"
    /\ LET st1 == [heap |-> heap,
                   dicts |-> [dicts EXCEPT !["stat_dict_line"] = dicts["line_stat_dict"]]]
           st2 == MergeChild(st1, "stat_dict", "stat_dict_line")
       IN heap' = st2.heap /\ dicts' = st2.dicts
    /\ pc' = IF Breaks(ret) \/ line_idx = Len(TextLines) THEN "done" ELSE "text"
    /\ UNCHANGED <<text, line_idx, line_src, line_in, char_idx, ret, line_out,
                   keys_nb, last_key, returned, ops_nb, last_op,
                   erased, render_nb, mainVars>>

(* --------------------------- specifications ---------------------------- *)

RECURSIVE SeqsUpTo(_, _)
\* the sequences over S of length at most n
SeqsUpTo(S, n) ==
    IF n = 0 THEN {<<>>}
    ELSE LET shorter == SeqsUpTo(S, n - 1)
         IN shorter \cup {Append(q, x) : q \in {r \in shorter : Len(r) = n - 1}, x \in S}

\* the texts: characters and line separators
Texts == SeqsUpTo(CharSet \cup {NEWLINE}, MaxTextLen)

InitCommon ==
    /\ heap = <<>>
    /\ dicts = [s \in Stores |-> EmptyDict]
    /\ line_idx = 0
    /\ line_src = <<>>
    /\ line_in = <<>>
    /\ char_idx = 0
    /\ ret = "OK"
    /\ line_out = <<>>
    /\ keys_nb = 0
    /\ last_key = None
    /\ returned = <<>>
    /\ ops_nb = 0
    /\ last_op = [op |-> "none", self |-> "stat_dict", arg |-> None]
    /\ erased = FALSE
    /\ render_nb = 0
    /\ main_dict = EmptyDict
    /\ io_log = <<>>

\* process_text(text) entered, before its first line
Init ==
    /\ InitCommon
    /\ text \in Texts
    /\ file = NoFile
    /\ pc = "text"

Next ==
    \/ StartLine
    \/ Escape
    \/ Return
    \/ Backspace
    \/ \E char_in \in CharSet : Printable(char_in)
    \/ \E char_in \in CharSet : PrintableIgnored(char_in)
    \/ \E char_in \in CharSet : PrintableIndexError(char_in)
    \/ MergeLine

Spec == Init /\ [][Next]_vars

(* ------------- the StatDict interface called in any order -------------- *)

DoAddSrc(s, char) ==
    /\ pc = "api"
    /\ ops_nb < MaxOps
    /\ ops_nb' = ops_nb + 1
    /\ last_op' = [op |-> "add_src", self |-> s, arg |-> char]
    /\ LET st1 == AddSrc(St, s, char) IN heap' = st1.heap /\ dicts' = st1.dicts
    /\ UNCHANGED <<sessionVars, mainVars>>

DoAddErr(s, char) ==
    /\ pc = "api"
    /\ ops_nb < MaxOps
    /\ ops_nb' = ops_nb + 1
    /\ last_op' = [op |-> "add_err", self |-> s, arg |-> char]
    /\ LET st1 == AddErr(St, s, char) IN heap' = st1.heap /\ dicts' = st1.dicts
    /\ UNCHANGED <<sessionVars, mainVars>>

DoMergeChild(s, child) ==
    /\ pc = "api"
    /\ ops_nb < MaxOps
    /\ ops_nb' = ops_nb + 1
    /\ last_op' = [op |-> "merge_child", self |-> s, arg |-> child]
    /\ LET st1 == MergeChild(St, s, child) IN heap' = st1.heap /\ dicts' = st1.dicts
    /\ UNCHANGED <<sessionVars, mainVars>>

InitStore ==
    /\ InitCommon
    /\ text = <<>>
    /\ file = NoFile
    /\ pc = "api"

NextStore ==
    \/ \E s \in Stores, char \in CharSet : DoAddSrc(s, char)
    \/ \E s \in Stores, char \in CharSet : DoAddErr(s, char)
    \/ \E s \in Stores, child \in Stores : DoMergeChild(s, child)

SpecStore == InitStore /\ [][NextStore]_vars

(* ------------------------- StatDict.load / save ------------------------ *)
(* stats.csv is the sequence of its rows after the header, each row the    *)
(* strings csv.DictReader gives for the fields char, src_nb, err_nb        *)
(* (NoField for a field the row lacks).  The quoting the csv module applies to a    *)
(* field is not modelled: no character of CharSet is ever quoted.  int()   *)
(* is modelled on strings of decimal digits.                               *)

\* only the StatDict of main is built with a file name
HasFile(s) == s = "main_stat_dict"

\* str(n) keeping only the last digit
FormatInt_LastDigit(n) == <<48 + (n % 10)>>

RECURSIVE FormatInt(_)
\* the decimal string csv.DictWriter writes for a counter
FormatInt(n) == IF n < 10 THEN <<48 + n>> ELSE FormatInt(n \div 10) \o <<48 + (n % 10)>>

\* int(field) succeeds: a non-empty string of digits
IsInt(field) == field # NoField /\ Len(field) > 0 /\ \A i \in 1..Len(field) : field[i] \in 48..57

RECURSIVE ParseInt(_)
\* int(field)
ParseInt(field) ==
    IF Len(field) = 0 THEN 0
    ELSE 10 * ParseInt(SubSeq(field, 1, Len(field) - 1)) + (field[Len(field)] - 48)

\* the row save writes for a CharStat
Row(char_stat) ==
    [char |-> <<char_stat.char>>,
     src_nb |-> FormatInt(char_stat.src_nb),
     err_nb |-> FormatInt(char_stat.err_nb)]

\* the orders in which a dict may hold its keys
Orders(d) ==
    {o \in [1..Cardinality(Keys(d)) -> Keys(d)] :
        \A i, j \in DOMAIN o : i # j => o[i] # o[j]}

\* StatDict.save: the rows written, the dict holding its keys in this order
Save(st, s, order) == FileOf([i \in DOMAIN order |-> Row(st.heap[st.dicts[s][order[i]]])])

\* the body of the loop of load on one row; ok is FALSE when int() or ord()
\* raises
LoadRow(st, s, row) ==
    IF ~IsInt(row.src_nb) \/ ~IsInt(row.err_nb) \/ row.char = NoField
    THEN [heap |-> st.heap, dicts |-> st.dicts, ok |-> FALSE]
    ELSE IF Len(row.char) # 1
    THEN [heap |-> st.heap, dicts |-> st.dicts, ok |-> FALSE]
    ELSE [heap |-> Append(st.heap, [char |-> row.char[1],
                                    src_nb |-> ParseInt(row.src_nb),
                                    err_nb |-> ParseInt(row.err_nb)]),
          dicts |-> [st.dicts EXCEPT ![s][row.char[1]] = Len(st.heap) + 1],
          ok |-> TRUE]

RECURSIVE LoadRows(_, _, _, _)
\* the loop of load from row i on; it stops at the first row that raises
LoadRows(st, s, rows, i) ==
    IF i > Len(rows) THEN [heap |-> st.heap, dicts |-> st.dicts, ok |-> TRUE]
    ELSE LET st1 == LoadRow(st, s, rows[i])
         IN IF st1.ok THEN LoadRows(st1, s, rows, i + 1) ELSE st1

\* StatDict.load: clear, open, read the rows
Load(st, s, f) ==
    IF ~HasFile(s) THEN [heap |-> st.heap, dicts |-> st.dicts, ok |-> TRUE]
    ELSE LET cleared == [heap |-> st.heap, dicts |-> [st.dicts EXCEPT ![s] = EmptyDict]]
         IN IF ~f.exists
            THEN [heap |-> cleared.heap, dicts |-> cleared.dicts, ok |-> FALSE]
            ELSE LoadRows(cleared, s, f.rows, 1)

\* the state with the StatDict of main among the stores
MainSt == [heap |-> heap, dicts |-> ("main_stat_dict" :> main_dict) @@ dicts]

\* the stores of process_text and process_line in a state st
SessionDicts(st) == [s \in Stores |-> st.dicts[s]]

(* -------------------------------- main --------------------------------- *)

\* StatDict.print divides by src_nb: it raises on an entry with src_nb = 0
PrintOk(h, d) == \A k \in Keys(d) : h[d[k]].src_nb # 0

\* main from StatDict("stats.csv") to the call of process_text; an
\* exception of load or print ends the program
MainLoad ==
    /\ pc = "main"
    /\ io_log' = Append(io_log, "load")
    /\ LET st1 == Load(MainSt, "main_stat_dict", file)
       IN /\ heap' = st1.heap
          /\ main_dict' = st1.dicts["main_stat_dict"]
          /\ pc' = IF st1.ok /\ PrintOk(st1.heap, st1.dicts["main_stat_dict"])
                   THEN "text" ELSE "error"
    /\ UNCHANGED <<dicts, text, line_idx, line_src, line_in, char_idx, ret,
                   line_out, keys_nb, last_key, returned, ops_nb, last_op,
                   erased, render_nb, file>>

\* main that saves before it merges
MainMergeSave_SaveFirst ==
    /\ pc = "done"
    /\ io_log' = io_log \o <<"save", "merge_child">>
    /\ \E order \in Orders(main_dict) : file' = Save(MainSt, "main_stat_dict", order)
    /\ LET st1 == MergeChild(MainSt, "main_stat_dict", "stat_dict")
       IN /\ heap' = st1.heap
          /\ main_dict' = st1.dicts["main_stat_dict"]
          /\ dicts' = SessionDicts(st1)
    /\ pc' = "exit"
    /\ UNCHANGED <<text, line_idx, line_src, line_in, char_idx, ret,
                   line_out, keys_nb, last_key, returned, ops_nb, last_op,
                   erased, render_nb>>

\* main after process_text returned: merge_child, print, save
MainMergeSave ==
    /\ pc = "done"
    /\ io_log' = io_log \o <<"merge_child", "save">>
    /\ LET st1 == MergeChild(MainSt, "main_stat_dict", "stat_dict")
       IN /\ heap' = st1.heap
          /\ main_dict' = st1.dicts["main_stat_dict"]
          /\ dicts' = SessionDicts(st1)
          /\ \E order \in Orders(st1.dicts["main_stat_dict"]) :
                 file' = Save(st1, "main_stat_dict", order)
    /\ pc' = "exit"
    /\ UNCHANGED <<text, line_idx, line_src, line_in, char_idx, ret,
                   line_out, keys_nb, last_key, returned, ops_nb, last_op,
                   erased, render_nb>>

\* a row of stats.csv: char, src_nb, err_nb
FileRow(char, src_nb, err_nb) == [char |-> char, src_nb |-> src_nb, err_nb |-> err_nb]

\* the stats.csv files main is run with: none, an empty one, a:(10,1),
\* one with a count that is no number, one with a source count of 0
MainFiles ==
    {NoFile, FileOf(<<>>),
     FileOf(<<FileRow(<<97>>, <<49, 48>>, <<49>>)>>),
     FileOf(<<FileRow(<<97>>, <<120>>, <<48>>)>>),
     FileOf(<<FileRow(<<98>>, <<48>>, <<48>>)>>)}

\* main entered, the text generated
InitMain ==
    /\ InitCommon
    /\ text \in Texts
    /\ file \in MainFiles
    /\ pc = "main"

NextMain ==
    \/ MainLoad
    \/ Next
    \/ MainMergeSave

SpecMain == InitMain /\ [][NextMain]_vars

(* ------- the StatDict of a file: add_src, add_err, save, load ---------- *)

\* the result of a call: the heap and the StatDict of the file
FileCall(op, result, st) ==
    /\ pc = "file_api"
    /\ ops_nb < MaxFileOps
    /\ ops_nb' = ops_nb + 1
    /\ io_log' = Append(io_log, op)
    /\ last_op' = [op |-> op, self |-> "main_stat_dict", arg |-> result]
    /\ heap' = st.heap
    /\ main_dict' = st.dicts["main_stat_dict"]
    /\ UNCHANGED <<sessionVars, dicts>>

FileAddSrc(char) ==
    /\ FileCall("add_src", char, AddSrc(MainSt, "main_stat_dict", char))
    /\ UNCHANGED file

FileAddErr(char) ==
    /\ FileCall("add_err", char, AddErr(MainSt, "main_stat_dict", char))
    /\ UNCHANGED file

FileSave ==
    /\ FileCall("save", "ok", MainSt)
    /\ \E order \in Orders(main_dict) : file' = Save(MainSt, "main_stat_dict", order)

FileLoad ==
    /\ LET st1 == Load(MainSt, "main_stat_dict", file)
       IN FileCall("load", IF st1.ok THEN "ok" ELSE "raised", st1)
    /\ UNCHANGED file

\* rows as save writes them
GoodRows ==
    {FileRow(<<c>>, n, e) : c \in {97, 98}, n \in {<<49>>, <<49, 48>>}, e \in {<<48>>, <<49>>}}

\* rows with a count that is no number, a missing field, an empty char
BadRows ==
    {FileRow(<<97>>, <<120>>, <<48>>),
     FileRow(<<98>>, <<49>>, NoField),
     FileRow(<<>>, <<49>>, <<48>>)}

\* the stats.csv files: none, or at most MaxRows rows
Files == {NoFile} \cup {FileOf(rows) : rows \in SeqsUpTo(GoodRows \cup BadRows, MaxRows)}

InitFile ==
    /\ InitCommon
    /\ text = <<>>
    /\ file \in Files
    /\ pc = "file_api"

NextFile ==
    \/ \E char \in CharSet : FileAddSrc(char)
    \/ \E char \in CharSet : FileAddErr(char)
    \/ FileSave
    \/ FileLoad

SpecFile == InitFile /\ [][NextFile]_vars

(* ------------------------------ properties ----------------------------- *)

\* the counters of every store, by value
AllViews == [s \in Stores |-> View(heap, dicts[s])]

\* the statistics of the running line session
LineStats == View(heap, dicts["line_stat_dict"])

\* counter f of character k in view v, 0 when k has no entry
Cnt(v, k, f) == IF k \in DOMAIN v THEN v[k][f] ELSE 0

\* the pointwise sum of two views
AddViews(v, w) ==
    [k \in (DOMAIN v) \cup (DOMAIN w) |->
        [src_nb |-> Cnt(v, k, "src_nb") + Cnt(w, k, "src_nb"),
         err_nb |-> Cnt(v, k, "err_nb") + Cnt(w, k, "err_nb")]]

RECURSIVE SumReturned(_)
\* the pointwise sum of the statistics the first n line sessions returned
SumReturned(n) == IF n = 0 THEN <<>> ELSE AddViews(SumReturned(n - 1), returned[n].stats)

\* this step consumed a printable or backspace key
KeyStep == pc = "line" /\ keys_nb' = keys_nb + 1

\* this step was a call of the StatDict interface
OpStep == pc = "api" /\ ops_nb' = ops_nb + 1

\* C1: in every state of a line session, every entry of the line's
\* statistics has err_nb <= src_nb.
C1_ErrLeSrc == \A k \in DOMAIN LineStats : LineStats[k].err_nb <= LineStats[k].src_nb

\* C1 witness: a character was mistyped twice, the second time after a backspace
C1_Witness ==
    /\ pc = "line"
    /\ Len(line_in) = 1
    /\ keys_nb = 3
    /\ \E k \in DOMAIN LineStats : LineStats[k].err_nb = 2 /\ LineStats[k].src_nb = 2

\* C2 (as claimed): in every state of a line session char_idx = len(line_in).
C2_CursorIsLength == pc \in {"line", "returned"} => char_idx = Len(line_in)

\* C3: the typed line never exceeds the source line, and a printable key
\* received when the typed line is full changes neither the typed line,
\* the cursor nor the line's statistics.
C3_BufferBound ==
    [][/\ Len(line_in') <= Len(line_src')
       /\ (KeyStep /\ last_key' \in CharSet /\ Len(line_in) = Len(line_src))
            => /\ line_in' = line_in
               /\ char_idx' = char_idx
               /\ LineStats' = LineStats]_vars

\* C3 witness: a one-character line was typed and a second printable key
\* was then ignored
C3_Witness ==
    /\ pc = "line"
    /\ line_idx = 1
    /\ Len(line_src) = 1
    /\ Len(line_in) = 1
    /\ char_idx = 1
    /\ keys_nb = 2
    /\ last_key \in CharSet

\* C4 (as claimed): a printable key whose typed character is the space
\* leaves the key set and the counters of every store unchanged.
C4_SpaceTypedChangesNothing ==
    [][(KeyStep /\ last_key' = SPACE) => AllViews' = AllViews]_vars

\* the character the session compares the typed one with
Expected == PyIndex(line_src, char_idx)

\* C4 (amended): a typed space leaves every store unchanged when the
\* expected character line_src[char_idx] is the space too or the typed line
\* is full; where another character is expected it adds one source and one
\* error to the entry of that character in the line's statistics, and
\* changes nothing else.
C4_SpaceTypedAmended ==
    [][(KeyStep /\ last_key' = SPACE) =>
         IF HasRoom(line_in, line_src) /\ InRange(line_src, char_idx) /\ Expected # SPACE
         THEN /\ DOMAIN LineStats' = (DOMAIN LineStats) \cup {Expected}
              /\ LineStats'[Expected].src_nb = Cnt(LineStats, Expected, "src_nb") + 1
              /\ LineStats'[Expected].err_nb = Cnt(LineStats, Expected, "err_nb") + 1
              /\ \A k \in DOMAIN LineStats : k # Expected => LineStats'[k] = LineStats[k]
              /\ \A s \in Stores \ {"line_stat_dict"} : AllViews'[s] = AllViews[s]
         ELSE AllViews' = AllViews]_vars

\* C4 witness: the space was typed where the space was expected, and the
\* line has no statistics
C4_Witness ==
    /\ pc = "line"
    /\ last_key = SPACE
    /\ line_in = <<SPACE>>
    /\ char_idx = 1
    /\ line_src[1] = SPACE
    /\ keys_nb = 1
    /\ DOMAIN LineStats = {}

\* the store after the calls self.merge_child(c1) then self.merge_child(c2)
MergedTwice(self, c1, c2) ==
    LET st2 == MergeChild(MergeChild(St, self, c1), self, c2)
    IN View(st2.heap, st2.dicts[self])

\* the store after b.merge_child(c) then self.merge_child(b)
MergedNested(self, b, c) ==
    LET st2 == MergeChild(MergeChild(St, b, c), self, b)
    IN View(st2.heap, st2.dicts[self])

\* C5 (as claimed): for any three stores A, B, C, merging B then C into A,
\* merging C then B into A, and merging into A the result of merging C into
\* B give A the same key set and the same counters.
C5_MergeOrderIrrelevant ==
    \A A \in Stores : \A B \in Stores \ {A} : \A C \in Stores \ {A, B} :
        /\ MergedTwice(A, B, C) = MergedTwice(A, C, B)
        /\ MergedTwice(A, B, C) = MergedNested(A, B, C)

\* C6: after self.merge_child(other) the store holds, for every character,
\* its counters of before plus those of other of before (an absent entry
\* counting for 0/0), and its key set is the union of the two key sets.
C6_MergeIsPointwiseSum ==
    [][(OpStep /\ last_op'.op = "merge_child") =>
         AllViews'[last_op'.self] =
             AddViews(AllViews[last_op'.self], AllViews[last_op'.arg])]_vars

\* C6 witness: a store holding a character 2 times received a distinct child
\* holding it once, with one error
C6_Witness ==
    /\ pc = "api"
    /\ last_op.op = "merge_child"
    /\ last_op.self # last_op.arg
    /\ \E k \in CharSet :
           /\ k \in DOMAIN AllViews[last_op.arg]
           /\ AllViews[last_op.arg][k] = [src_nb |-> 1, err_nb |-> 1]
           /\ k \in DOMAIN AllViews[last_op.self]
           /\ AllViews[last_op.self][k] = [src_nb |-> 3, err_nb |-> 1]

\* C7 (as claimed): self.merge_child(other) on two distinct stores leaves
\* the key set and the counters of other unchanged.
C7_MergeLeavesChild ==
    [][(OpStep /\ last_op'.op = "merge_child" /\ last_op'.self # last_op'.arg) =>
         AllViews'[last_op'.arg] = AllViews[last_op'.arg]]_vars

\* no CharStat object belongs to two stores
NoSharedEntry ==
    \A s1 \in Stores : \A s2 \in Stores \ {s1} : \A k \in Keys(dicts[s1]) :
        dicts[s1][k] # dicts[s2][k]

\* C8 (as claimed): no CharStat entry belongs to two stores, and a call of
\* add_src, add_err or merge_child on one store changes no counter of
\* another store.
C8_ExclusiveEntries ==
    /\ []NoSharedEntry
    /\ [][OpStep => \A s \in Stores \ {last_op'.self} : AllViews'[s] = AllViews[s]]_vars

\* a line session has returned STOP
Stopped == \E i \in DOMAIN returned : returned[i].ret = "STOP"

\* C9: once a line session returned STOP no other line session starts, and
\* the statistics process_text returns are the sum of the statistics of the
\* line sessions run so far, the stopped one included.
C9_StopHalts ==
    Stopped =>
        /\ pc \in {"returned", "done"}
        /\ Len(returned) = line_idx
        /\ returned[line_idx].ret = "STOP"
        /\ \A i \in 1..(line_idx - 1) : returned[i].ret = "OK"
        /\ pc = "done" => AllViews["stat_dict"] = SumReturned(line_idx)

\* C9 witness: process_text returned after the first of two lines was
\* stopped with statistics
C9_Witness ==
    /\ pc = "done"
    /\ Stopped
    /\ line_idx = 1
    /\ Len(TextLines) = 2
    /\ DOMAIN returned[1].stats # {}

\* C10: the lines are processed in order, each line session starting with
\* an empty typed line, cursor 0 and empty statistics; when every line
\* session returned OK, process_text returns the pointwise sum of the
\* statistics the line sessions returned.
C10_TextIsSumOfLines ==
    /\ (pc = "line" /\ last_key = None) =>
            /\ line_src = TextLines[line_idx]
            /\ Len(returned) = line_idx - 1
            /\ line_in = <<>>
            /\ char_idx = 0
            /\ DOMAIN LineStats = {}
    /\ \A i \in DOMAIN returned : returned[i].line = TextLines[i]
    /\ (pc = "done" /\ ~Stopped) =>
            /\ Len(returned) = Len(TextLines)
            /\ AllViews["stat_dict"] = SumReturned(Len(TextLines))

\* C10 witness: the two lines "ab" and "a" typed without a fault give
\* a:(2,0), b:(1,0)
C10_Witness ==
    /\ pc = "done"
    /\ ~Stopped
    /\ text = <<97, 98, NEWLINE, 97>>
    /\ AllViews["stat_dict"] =
           (97 :> [src_nb |-> 2, err_nb |-> 0]) @@ (98 :> [src_nb |-> 1, err_nb |-> 0])

\* C11 (as claimed): a line session ends only by key 27, returning STOP, or
\* by key 10, returning OK; that key changes no statistic; every other key
\* leaves the session reading keys, and no key raises an error.
C11_OnlyCancelOrConfirmEnds ==
    [][pc = "line" =>
         \/ last_key' = ESCAPE /\ pc' = "returned" /\ ret' = "STOP" /\ AllViews' = AllViews
         \/ last_key' = RETURN /\ pc' = "returned" /\ ret' = "OK" /\ AllViews' = AllViews
         \/ last_key' \notin {ESCAPE, RETURN} /\ pc' = "line"]_vars

\* C12: a backspace changes no counter and no key set of the line's
\* statistics, and no key of a line session makes a counter decrease or an
\* entry disappear.
C12_EraseKeepsStats ==
    [][/\ (KeyStep /\ last_key' = BACKSPACE) => LineStats' = LineStats
       /\ (pc = "line" /\ pc' = "line") =>
            \A k \in DOMAIN LineStats :
                /\ k \in DOMAIN LineStats'
                /\ LineStats'[k].src_nb >= LineStats[k].src_nb
                /\ LineStats'[k].err_nb >= LineStats[k].err_nb]_vars

\* C12 witness: 'a' was typed against the line "b" and then erased; 'b'
\* still has one source and one error
C12_Witness ==
    /\ pc = "line"
    /\ line_src = <<98>>
    /\ line_in = <<>>
    /\ last_key = BACKSPACE
    /\ keys_nb = 2
    /\ LineStats = (98 :> [src_nb |-> 1, err_nb |-> 1])

\* the source character at the position where a typed character is appended
AtAppendPosition == line_src[Len(line_in) + 1]

\* C16 (as claimed): add_src(' ') and add_err(' ') leave the store
\* unchanged; a printable key received where the source character at the
\* typing position is the space changes no counter, whatever is typed; no
\* store ever has an entry for the space.
C16_SpaceNeverRecorded ==
    /\ [](\A s \in Stores : SPACE \notin Keys(dicts[s]))
    /\ [][(OpStep /\ last_op'.op \in {"add_src", "add_err"} /\ last_op'.arg = SPACE)
            => AllViews' = AllViews]_vars
    /\ [][(KeyStep /\ last_key' \in CharSet /\ HasRoom(line_in, line_src)
             /\ AtAppendPosition = SPACE)
            => AllViews' = AllViews]_vars

\* C17 (as claimed): a printable key received with room left appends the
\* typed character and records against expected, the source character at
\* the position of the append: one source more, one error more when the
\* typed character differs, nothing else changed (nothing at all where
\* expected is the space, which add_src and add_err skip).
C17_RecordsAtAppendPosition ==
    [][(KeyStep /\ last_key' \in CharSet /\ HasRoom(line_in, line_src)) =>
         LET expected == AtAppendPosition
         IN /\ line_in' = Append(line_in, last_key')
            /\ IF expected = SPACE THEN LineStats' = LineStats
               ELSE /\ DOMAIN LineStats' = (DOMAIN LineStats) \cup {expected}
                    /\ LineStats'[expected].src_nb = Cnt(LineStats, expected, "src_nb") + 1
                    /\ LineStats'[expected].err_nb =
                           Cnt(LineStats, expected, "err_nb")
                             + (IF last_key' # expected THEN 1 ELSE 0)
                    /\ \A k \in DOMAIN LineStats :
                           k # expected => LineStats'[k] = LineStats[k]]_vars

\* C18 (as claimed): a backspace on an empty typed line changes neither
\* the typed line, the cursor nor the statistics; on a non-empty typed line
\* it removes the last character and decreases the cursor by 1; the session
\* goes on reading keys.
C18_EraseOnEmptyIsNoOp ==
    [][(KeyStep /\ last_key' = BACKSPACE) =>
         /\ pc' = "line"
         /\ IF line_in = <<>>
            THEN line_in' = line_in /\ char_idx' = char_idx /\ LineStats' = LineStats
            ELSE /\ line_in' = SubSeq(line_in, 1, Len(line_in) - 1)
                 /\ char_idx' = char_idx - 1]_vars

\* the positions typed so far whose source character is c
Positions(c) == {i \in 1..Len(line_in) : line_src[i] = c}

\* the statistics by position: for every character but the space that is
\* the source character of a typed position, the number of these positions
\* and the number of them typed otherwise
PositionStats ==
    [c \in {k \in CharSet \ {SPACE} : Positions(k) # {}} |->
        [src_nb |-> Cardinality(Positions(c)),
         err_nb |-> Cardinality({i \in Positions(c) : line_in[i] # c})]]

\* C19: in a line session that received no backspace, the statistics, and
\* those returned at the end, are the statistics by position of the typed
\* line against the source line, with no other entry.
C19_StatsByPosition ==
    (pc \in {"line", "returned"} /\ ~erased) =>
        /\ LineStats = PositionStats
        /\ pc = "returned" => returned[Len(returned)].stats = PositionStats

\* C19 witness: line "ab", keys 'a', 'a', Return give a:(1,0), b:(1,1), OK
C19_Witness ==
    /\ pc = "returned"
    /\ ~erased
    /\ line_src = <<97, 98>>
    /\ line_in = <<97, 97>>
    /\ returned[Len(returned)].ret = "OK"
    /\ returned[Len(returned)].stats =
           (97 :> [src_nb |-> 1, err_nb |-> 0]) @@ (98 :> [src_nb |-> 1, err_nb |-> 1])

\* line_out is the overlay of the typed line on the source line
RenderMatches(out, lin, lsrc) ==
    /\ Len(out) = (IF Len(lin) < Len(lsrc) THEN Len(lin) ELSE Len(lsrc))
    /\ \A i \in 1..Len(out) :
           /\ out[i].char = lin[i]
           /\ out[i].red <=> (lin[i] # lsrc[i])

\* C20 (as claimed): every key a line session consumes is followed by one
\* render, the overlay of the typed line on the source line.
C20_RenderAfterEveryKey ==
    [][pc = "line" =>
         /\ render_nb' = render_nb + 1
         /\ RenderMatches(line_out', line_in', line_src')]_vars

\* C20 (amended): every key that leaves the session reading keys (a
\* printable key or a backspace) is followed by one render, the overlay of
\* the typed line on the source line; any other key is followed by none.
C20_RenderAfterKeyInTyping ==
    [][pc = "line" =>
         IF pc' = "line"
         THEN /\ render_nb' = render_nb + 1
              /\ RenderMatches(line_out', line_in', line_src')
         ELSE render_nb' = render_nb /\ line_out' = line_out]_vars

\* C20 witness: "aa" typed against "ab" is rendered as a plain 'a' and a
\* red 'a'
C20_Witness ==
    /\ pc = "line"
    /\ line_src = <<97, 98>>
    /\ line_in = <<97, 97>>
    /\ render_nb = 2
    /\ line_out = <<[char |-> 97, red |-> FALSE], [char |-> 97, red |-> TRUE]>>

\* the StatDict of the file, by value
MainView == View(heap, main_dict)

\* this step was a call on the StatDict of the file
FileStep == pc = "file_api" /\ ops_nb' = ops_nb + 1

\* C13: a load that follows a save succeeds and gives the store the key
\* set and the counters it had before the save, whatever the order of the
\* rows.
C13_SaveLoadRoundTrip ==
    [][(FileStep /\ last_op.op = "save" /\ last_op'.op = "load") =>
         /\ last_op'.arg = "ok"
         /\ MainView' = MainView]_vars

\* C13 witness: a store holding a:(10,1) and b:(1,0) was saved and loaded
C13_Witness ==
    /\ pc = "file_api"
    /\ io_log = <<"load", "save", "load">>
    /\ last_op.arg = "ok"
    /\ MainView = (97 :> [src_nb |-> 10, err_nb |-> 1]) @@ (98 :> [src_nb |-> 1, err_nb |-> 0])

\* a row of the file has a count that is no integer or that is missing
Malformed(f) ==
    \E i \in DOMAIN f.rows : ~IsInt(f.rows[i].src_nb) \/ ~IsInt(f.rows[i].err_nb)

\* C14 (as claimed): the load of a file with a malformed row raises and
\* loads no row: the store is left empty or as it was before the call.
C14_FailedLoadLoadsNothing ==
    [][(FileStep /\ last_op'.op = "load" /\ file.exists /\ Malformed(file)) =>
         /\ last_op'.arg = "raised"
         /\ (Keys(main_dict') = {} \/ MainView' = MainView)]_vars

\* the store a load of file f gives
ViewOfFile(f) ==
    LET st == Load([heap |-> <<>>, dicts |-> ("main_stat_dict" :> EmptyDict)],
                   "main_stat_dict", f)
    IN View(st.heap, st.dicts["main_stat_dict"])

\* C15: main loads its StatDict once, before the first line session; the
\* StatDict and the file stay as loaded while process_text runs; once
\* process_text has returned, after a STOP or not, main calls merge_child
\* once and save once, and the counters saved are those loaded plus those
\* process_text returned.
C15_LoadMergeSaveOnce ==
    /\ [](pc = "main" => (io_log = <<>> /\ line_idx = 0 /\ returned = <<>>))
    /\ [](pc \in {"text", "line", "returned", "done"} =>
            (io_log = <<"load">> /\ MainView = ViewOfFile(file)))
    /\ [][(pc \in {"text", "line", "returned"}) =>
            (main_dict' = main_dict /\ file' = file /\ MainView' = MainView)]_vars
    /\ [](pc = "exit" => io_log = <<"load", "merge_child", "save">>)
    /\ [][(pc = "done" /\ pc' = "exit") =>
            ViewOfFile(file') = AddViews(ViewOfFile(file), AllViews["stat_dict"])]_vars

\* C15 witness: stats.csv held a:(10,1); 'b' was typed for 'a' and the line
\* stopped; stats.csv holds a:(11,2)
C15_Witness ==
    /\ pc = "exit"
    /\ Stopped
    /\ file = FileOf(<<FileRow(<<97>>, <<49, 49>>, <<50>>)>>)

====
